---- MODULE Spec2Model ----
(***************************************************************************)
(* Model of the arbitrage signal engine of ai-invest-agent:                *)
(*   src/src/jobs/watchlist_job.py  (the tick: session gate, worksheets,   *)
(*                                   reference rate, per-instrument        *)
(*                                   filters, dedup state)                 *)
(*   src/src/common/calc.py, iol.py, sheets.py, yahoo.py, telegram.py      *)
(*                                                                         *)
(* Numbers.  Python floats are modelled as exact rationals [n, d] (d > 0,  *)
(* lowest terms); an Optional value is <<>> (None) or <<v>>.  Times are    *)
(* whole seconds since midnight of one day.                                *)
(***************************************************************************)
EXTENDS Integers, Sequences, FiniteSets, TLC

VARIABLES
    guardEnabled,   \* WINDOW_GUARD_ENABLED (environment)
    sheets,         \* the spreadsheet: worksheet -> [exists, rows]
    sheets0,        \* the spreadsheet before the first tick (history variable)
    watchlist,      \* the rows of the watchlist tab
    pc,             \* per tick: position in main()
    dt,             \* per tick: dt_arg = now_arg()
    cur,            \* per tick: the worksheet ensure_worksheet is working on
    vals,           \* per tick: ws.get_all_values() as read by ensure_worksheet
    state,          \* per tick: load_alert_state(ws_state)
    mep,            \* per tick: mep_ref
    idx,            \* per tick: position of the for-loop over the watchlist
    fetched,        \* per tick: a quote request was issued
    wrote,          \* per tick: the tick wrote to the spreadsheet
    exc,            \* per tick: the unhandled exception that ended it, or "none"
    passed,         \* per tick: the opportunity that passed every filter, or <<>>
    fin,            \* inputs of a pure function under check
    fout            \* its result

vars == <<guardEnabled, sheets, sheets0, watchlist, pc, dt, cur, vals,
          state, mep, idx, fetched, wrote, exc, passed, fin, fout>>

tickVars == <<guardEnabled, sheets, sheets0, watchlist, pc, dt, cur,
              vals, state, mep, idx, fetched, wrote, exc, passed>>

-----------------------------------------------------------------------------
(* Python values *)

None == <<>>
Some(v) == <<v>>
IsNone(x) == x = <<>>
Val(x) == x[1]

Abs(i) == IF i < 0 THEN -i ELSE i

RECURSIVE GCD(_, _)
GCD(a, b) == IF b = 0 THEN a ELSE GCD(b, a % b)

\* the sequences over S of length at most n
RECURSIVE SeqsUpTo(_, _)
SeqsUpTo(S, n) ==
    IF n = 0 THEN {<<>>}
    ELSE LET shorter == SeqsUpTo(S, n - 1)
         IN  shorter \cup {Append(q, x) : q \in {r \in shorter : Len(r) = n - 1}, x \in S}

\* a float, as the rational n/d in lowest terms with d > 0
Rat(n, d) ==
    LET s == IF d < 0 THEN -1 ELSE 1
        g == GCD(Abs(n), Abs(d))
    IN  [n |-> (s * n) \div g, d |-> (s * d) \div g]

R(i) == [n |-> i, d |-> 1]
RAdd(a, b) == Rat(a.n * b.d + b.n * a.d, a.d * b.d)
RSub(a, b) == Rat(a.n * b.d - b.n * a.d, a.d * b.d)
RMul(a, b) == Rat(a.n * b.n, a.d * b.d)
RDiv(a, b) == Rat(a.n * b.d, a.d * b.n)
RLt(a, b) == a.n * b.d < b.n * a.d
RLe(a, b) == a.n * b.d <= b.n * a.d
RGt(a, b) == RLt(b, a)
RGe(a, b) == RLe(b, a)
RAbs(a) == [n |-> Abs(a.n), d |-> a.d]
RZero(a) == a.n = 0
\* math.ceil
RCeil(a) == -((-a.n) \div a.d)

\* `not x` for an Optional[float]
Falsy(x) == IsNone(x) \/ RZero(Val(x))

-----------------------------------------------------------------------------
(* Configuration: src/src/jobs/watchlist_job.py:20-69 (the defaults) *)

BROKER_FEE_PCT == Rat(1, 2)
WATCH_MIN_DIFF_PCT == R(2)
WATCH_MIN_NET_USD_PER_CEDEAR == Rat(1, 2)
ADR_MAX_ABS_5M_PCT == Rat(1, 4)
TARGET_USD == 500
MIN_MONTO_OPERADO_ARS == 50000000
WATCH_PLAZO_TARGET == "T1"
ALERT_COOLDOWN_MIN == 20
ALERT_EDGE_IMPROVE_USD == Rat(5, 100)
FLAG_STRONG_EDGE_USD == Rat(80, 100)
FLAG_STRONG_DIFF_PCT == R(3)
FLAG_ULTRA_EDGE_USD == Rat(150, 100)
FLAG_ULTRA_DIFF_PCT == R(4)

\* (sh, sm, eh, em), as seconds since midnight
Hm(h, m) == h * 3600 + m * 60
ALLOWED_WINDOWS == << <<11, 0, 13, 0>>, <<16, 0, 17, 0>> >>

-----------------------------------------------------------------------------
(* Strings: str.strip().upper() on the cell values the model uses *)

strip_upper(s) ==
    CASE s = "ggal"  -> "GGAL"
      [] s = " GGAL" -> "GGAL"
      [] s = "compra" -> "COMPRA"
      [] s = "venta" -> "VENTA"
      [] s = "cedear" -> "CEDEAR"
      [] s = " "     -> ""
      [] OTHER       -> s

-----------------------------------------------------------------------------
(* src/src/common/calc.py *)

ccl_implicit(cedear_ars, stock_usd, ratio) ==
    IF Falsy(cedear_ars) \/ Falsy(stock_usd) \/ Falsy(ratio) THEN None
    ELSE IF RLe(Val(stock_usd), R(0)) \/ RLe(Val(ratio), R(0)) THEN None
    ELSE Some(RDiv(RMul(Val(cedear_ars), Val(ratio)), Val(stock_usd)))

\* edges_intuitive with the two net edges exchanged
edges_intuitive_swapped(bid_ars, ask_ars, stock_usd, ratio, ccl_mkt, fee_pct_per_tx) ==
    IF Falsy(ccl_mkt) \/ RLe(Val(ccl_mkt), R(0)) THEN [kind |-> "none"]
    ELSE IF RZero(ratio) THEN [kind |-> "ZeroDivisionError"]
    ELSE
      LET usd_ask == RDiv(ask_ars, Val(ccl_mkt))
          usd_bid == RDiv(bid_ars, Val(ccl_mkt))
          usd_stock == RDiv(stock_usd, ratio)
          edge_buy_gross == RSub(usd_stock, usd_ask)
          edge_sell_gross == RSub(usd_bid, usd_stock)
          fee_buy == RMul(usd_ask, RDiv(RMul(R(2), fee_pct_per_tx), R(100)))
          fee_sell == RMul(usd_bid, RDiv(RMul(R(2), fee_pct_per_tx), R(100)))
      IN  [kind |-> "ok",
           usd_cedear_ask |-> usd_ask,
           usd_cedear_bid |-> usd_bid,
           usd_stock_per_cedear |-> usd_stock,
           edge_buy_gross |-> edge_buy_gross,
           edge_sell_gross |-> edge_sell_gross,
           fee_buy_usd_rt |-> fee_buy,
           fee_sell_usd_rt |-> fee_sell,
           edge_buy_net |-> RSub(edge_sell_gross, fee_sell),
           edge_sell_net |-> RSub(edge_buy_gross, fee_buy)]

\* bid_ars, ask_ars, stock_usd, ratio are floats; ccl_mkt is Optional.
\* stock_usd / ratio raises ZeroDivisionError for ratio = 0.
edges_intuitive(bid_ars, ask_ars, stock_usd, ratio, ccl_mkt, fee_pct_per_tx) ==
    IF Falsy(ccl_mkt) \/ RLe(Val(ccl_mkt), R(0)) THEN [kind |-> "none"]
    ELSE IF RZero(ratio) THEN [kind |-> "ZeroDivisionError"]
    ELSE
      LET usd_ask == RDiv(ask_ars, Val(ccl_mkt))
          usd_bid == RDiv(bid_ars, Val(ccl_mkt))
          usd_stock == RDiv(stock_usd, ratio)
          edge_buy_gross == RSub(usd_stock, usd_ask)
          edge_sell_gross == RSub(usd_bid, usd_stock)
          fee_buy == RMul(usd_ask, RDiv(RMul(R(2), fee_pct_per_tx), R(100)))
          fee_sell == RMul(usd_bid, RDiv(RMul(R(2), fee_pct_per_tx), R(100)))
      IN  [kind |-> "ok",
           usd_cedear_ask |-> usd_ask,
           usd_cedear_bid |-> usd_bid,
           usd_stock_per_cedear |-> usd_stock,
           edge_buy_gross |-> edge_buy_gross,
           edge_sell_gross |-> edge_sell_gross,
           fee_buy_usd_rt |-> fee_buy,
           fee_sell_usd_rt |-> fee_sell,
           edge_buy_net |-> RSub(edge_buy_gross, fee_buy),
           edge_sell_net |-> RSub(edge_sell_gross, fee_sell)]

-----------------------------------------------------------------------------
(* src/src/jobs/watchlist_job.py: time *)

\* in_allowed_window without the comparison against the end of the window
RECURSIVE in_allowed_window_noend(_, _)
in_allowed_window_noend(t, i) ==
    IF i > Len(ALLOWED_WINDOWS) THEN FALSE
    ELSE LET w == ALLOWED_WINDOWS[i]
             start == Hm(w[1], w[2])
         IN  IF start <= t THEN TRUE
             ELSE in_allowed_window_noend(t, i + 1)

\* the loop of in_allowed_window, from window i on
RECURSIVE in_allowed_window_from(_, _)
in_allowed_window_from(t, i) ==
    IF i > Len(ALLOWED_WINDOWS) THEN FALSE
    ELSE LET w == ALLOWED_WINDOWS[i]
             start == Hm(w[1], w[2])
             end == Hm(w[3], w[4])
         IN  IF start <= t /\ t <= end THEN TRUE
             ELSE in_allowed_window_from(t, i + 1)

in_allowed_window(t) == in_allowed_window_from(t, 1)

-----------------------------------------------------------------------------
(* src/src/jobs/watchlist_job.py: sizing and classification *)

pick_mark_or_last(pq) ==
    IF ~IsNone(pq.bid) /\ ~IsNone(pq.ask)
    THEN Some(RDiv(RAdd(Val(pq.bid), Val(pq.ask)), R(2)))
    ELSE pq.last

\* bid_d, ask_d are floats; the result is an Optional[int]
required_cedears_for_target_usd(target_usd, bid_d, ask_d, side) ==
    LET usd_per_cedear == IF side = "COMPRA" THEN bid_d ELSE ask_d
    IN  IF RZero(usd_per_cedear) \/ RLe(usd_per_cedear, R(0)) THEN None
        ELSE Some(RCeil(RDiv(R(target_usd), usd_per_cedear)))

Max(a, b) == IF a >= b THEN a ELSE b

\* min_qty_thresholds_for_target with half the lot instead of twice the lot
min_qty_thresholds_for_target_half(n) ==
    IF n = 0 \/ n <= 0 THEN <<50, 20>>
    ELSE <<Max(50, n \div 2), Max(20, n \div 2)>>

\* min_qty_thresholds_for_target without the multiple of n
min_qty_thresholds_for_target_floor(n) == <<50, 20>>

min_qty_thresholds_for_target(n) ==
    IF n = 0 \/ n <= 0 THEN <<50, 20>>
    ELSE <<Max(50, 2 * n), Max(20, 2 * n)>>

\* is_executable_for_size looking at the sides that are not hit
is_executable_for_size_other(n, bid_qty_ars, ask_qty_ars, bid_qty_d, ask_qty_d, side) ==
    IF n = 0 \/ n <= 0 THEN FALSE
    ELSE IF side = "COMPRA" THEN (bid_qty_ars >= n) /\ (ask_qty_d >= n)
    ELSE (ask_qty_ars >= n) /\ (bid_qty_d >= n)

is_executable_for_size(n, bid_qty_ars, ask_qty_ars, bid_qty_d, ask_qty_d, side) ==
    IF n = 0 \/ n <= 0 THEN FALSE
    ELSE IF side = "COMPRA" THEN (ask_qty_ars >= n) /\ (bid_qty_d >= n)
    ELSE (bid_qty_ars >= n) /\ (ask_qty_d >= n)

side_for_direction(arb_side) ==
    IF arb_side = "barato en ARS / caro en D" THEN "COMPRA" ELSE "VENTA"

\* has_ultra_liquidity without the foreign-listing ask
has_ultra_liquidity_three(n, bid_qty_ars, ask_qty_ars, bid_qty_d, ask_qty_d) ==
    IF n = 0 \/ n <= 0 THEN FALSE
    ELSE /\ bid_qty_ars >= 4 * n
         /\ ask_qty_ars >= 4 * n
         /\ bid_qty_d >= 4 * n

has_ultra_liquidity(n, bid_qty_ars, ask_qty_ars, bid_qty_d, ask_qty_d) ==
    IF n = 0 \/ n <= 0 THEN FALSE
    ELSE /\ bid_qty_ars >= 4 * n
         /\ ask_qty_ars >= 4 * n
         /\ bid_qty_d >= 4 * n
         /\ ask_qty_d >= 4 * n

opportunity_flag(edge_net, diff_pct, n_cedears, bid_qty_ars, ask_qty_ars, bid_qty_d, ask_qty_d) ==
    IF /\ RGe(edge_net, FLAG_ULTRA_EDGE_USD)
       /\ RGe(RAbs(diff_pct), FLAG_ULTRA_DIFF_PCT)
       /\ has_ultra_liquidity(n_cedears, bid_qty_ars, ask_qty_ars,
                              bid_qty_d, ask_qty_d)
    THEN "ULTRA"
    ELSE IF RGe(edge_net, FLAG_STRONG_EDGE_USD)
            \/ RGe(RAbs(diff_pct), FLAG_STRONG_DIFF_PCT)
    THEN "STRONG"
    ELSE "MEDIUM"

-----------------------------------------------------------------------------
(* Spreadsheet cells and rows.                                             *)
(* A cell is a text, a number or an ISO-8601 timestamp; a row is a         *)
(* sequence of cells; a worksheet is [exists, rows].                       *)

Str(s) == [k |-> "str", s |-> s]
Num(r) == [k |-> "num", r |-> r]
Iso(t) == [k |-> "iso", t |-> t]

STATE_HEADER == <<Str("ticker"), Str("last_side"), Str("last_sent_at"),
                  Str("last_edge_net")>>

\* the 33 column titles, as one cell
WATCHLIST_HISTORY_HEADER == <<Str("date,time_arg,ticker,...,status,skip_reason,source")>>

\* src/src/jobs/watchlist_job.py:85-89
parse_iso(c) == IF c.k = "iso" THEN Some(c.t) ELSE None

\* src/src/jobs/watchlist_job.py:94-102
safe_float(c) == IF c.k = "num" THEN Some(c.r) ELSE None

\* one record of Worksheet.get_all_records(): r.get(key), with the first row
\* of the sheet as the keys
RowGet(keys, row, key) ==
    IF \E j \in 1..Len(keys) : keys[j] = Str(key) /\ j <= Len(row)
    THEN row[CHOOSE j \in 1..Len(keys) : keys[j] = Str(key) /\ j <= Len(row)]
    ELSE Str("")

\* `(cell or "").strip().upper()` of a text cell
CellText(c) == IF c.k = "str" THEN strip_upper(c.s) ELSE ""

-----------------------------------------------------------------------------
(* src/src/jobs/watchlist_job.py: dedup state *)

\* the dict built by the loop over rows 2..i of the sheet
RECURSIVE load_alert_state_upto(_, _)
load_alert_state_upto(rows, i) ==
    IF i < 2 THEN <<>>
    ELSE LET prev == load_alert_state_upto(rows, i - 1)
             t == CellText(RowGet(rows[1], rows[i], "ticker"))
             entry == [last_side |-> CellText(RowGet(rows[1], rows[i], "last_side")),
                       last_sent_at |-> parse_iso(RowGet(rows[1], rows[i], "last_sent_at")),
                       last_edge_net |-> safe_float(RowGet(rows[1], rows[i], "last_edge_net")),
                       row_index |-> i]
         IN  IF t = "" THEN prev
             ELSE [x \in (DOMAIN prev) \cup {t} |-> IF x = t THEN entry ELSE prev[x]]

load_alert_state(rows) == load_alert_state_upto(rows, Len(rows))

\* should_send_alert with the cooldown compared by > instead of >=
should_send_alert_gt(st, ticker, side, edge_net, now_dt) ==
    LET t == strip_upper(ticker)
    IN  IF t \notin DOMAIN st THEN TRUE
        ELSE LET prev == st[t]
             IN  IF prev.last_side # "" /\ prev.last_side # strip_upper(side) THEN TRUE
                 ELSE IF IsNone(prev.last_sent_at) THEN TRUE
                 ELSE IF now_dt - Val(prev.last_sent_at) > ALERT_COOLDOWN_MIN * 60 THEN TRUE
                 ELSE IF IsNone(prev.last_edge_net) THEN TRUE
                 ELSE RGe(RSub(edge_net, Val(prev.last_edge_net)), ALERT_EDGE_IMPROVE_USD)

\* should_send_alert without the test of the stored direction
should_send_alert_noflip(st, ticker, side, edge_net, now_dt) ==
    LET t == strip_upper(ticker)
    IN  IF t \notin DOMAIN st THEN TRUE
        ELSE LET prev == st[t]
             IN  IF IsNone(prev.last_sent_at) THEN TRUE
                 ELSE IF now_dt - Val(prev.last_sent_at) >= ALERT_COOLDOWN_MIN * 60 THEN TRUE
                 ELSE IF IsNone(prev.last_edge_net) THEN TRUE
                 ELSE RGe(RSub(edge_net, Val(prev.last_edge_net)), ALERT_EDGE_IMPROVE_USD)

\* minutes = (now_dt - prev_time).total_seconds() / 60.0 >= ALERT_COOLDOWN_MIN
should_send_alert(st, ticker, side, edge_net, now_dt) ==
    LET t == strip_upper(ticker)
    IN  IF t \notin DOMAIN st THEN TRUE
        ELSE LET prev == st[t]
             IN  IF prev.last_side # "" /\ prev.last_side # strip_upper(side) THEN TRUE
                 ELSE IF IsNone(prev.last_sent_at) THEN TRUE
                 ELSE IF now_dt - Val(prev.last_sent_at) >= ALERT_COOLDOWN_MIN * 60 THEN TRUE
                 ELSE IF IsNone(prev.last_edge_net) THEN TRUE
                 ELSE RGe(RSub(edge_net, Val(prev.last_edge_net)), ALERT_EDGE_IMPROVE_USD)

\* the rows of ws_state after upsert_alert_state: ws_state.update of row
\* row_index, or ws_state.append_row
upsert_alert_state(rows, st, ticker, side, edge_net, now_dt) ==
    LET t == strip_upper(ticker)
        new == <<Str(t), Str(strip_upper(side)), Iso(now_dt), Num(edge_net)>>
    IN  IF t \in DOMAIN st
        THEN LET row == st[t].row_index
             IN  [i \in 1..Max(Len(rows), row) |->
                     IF i = row THEN new
                     ELSE IF i <= Len(rows) THEN rows[i] ELSE <<>>]
        ELSE Append(rows, new)


-----------------------------------------------------------------------------
(* src/src/common/iol.py: quotes *)

\* what IOLClient.get_quote gives: the JSON of the quote, None for an HTTP
\* status >= 400, or the exception requests raises when the transport fails
\* (get_quote catches nothing)
QuoteOk(q) == [kind |-> "ok", q |-> q]
QuoteNone == [kind |-> "none"]
QuoteRaises == [kind |-> "exc"]

Punta(bid, ask, bid_qty, ask_qty) ==
    [precioCompra |-> bid, precioVenta |-> ask,
     cantidadCompra |-> bid_qty, cantidadVenta |-> ask_qty]

Json(last, plazo, monto, puntas) ==
    [ultimoPrecio |-> last, plazo |-> plazo, montoOperado |-> monto, puntas |-> puntas]

parse_iol_quote(q) ==
    LET has == Len(q.puntas) > 0
    IN  [last |-> q.ultimoPrecio,
         bid |-> IF has THEN q.puntas[1].precioCompra ELSE None,
         ask |-> IF has THEN q.puntas[1].precioVenta ELSE None,
         bid_qty |-> IF has THEN q.puntas[1].cantidadCompra ELSE None,
         ask_qty |-> IF has THEN q.puntas[1].cantidadVenta ELSE None,
         plazo |-> q.plazo,
         montoOperado |-> q.montoOperado]

-----------------------------------------------------------------------------
(* src/src/jobs/watchlist_job.py: the reference rate *)

\* q_ars, q_usd: what the two get_quote calls give.  The result is the
\* exception that escapes, or the Optional rate.
get_mep_ref(q_ars, q_usd, plazo_target) ==
    IF q_ars.kind = "exc" \/ q_usd.kind = "exc" THEN [kind |-> "exc", val |-> None]
    ELSE IF q_ars.kind = "none" \/ q_usd.kind = "none" THEN [kind |-> "ok", val |-> None]
    ELSE
      LET p_ars == parse_iol_quote(q_ars.q)
          p_usd == parse_iol_quote(q_usd.q)
          al30_ars == pick_mark_or_last(p_ars)
          al30d_usd == pick_mark_or_last(p_usd)
      IN  IF p_ars.plazo # plazo_target \/ p_usd.plazo # plazo_target
          THEN [kind |-> "ok", val |-> None]
          ELSE IF Falsy(al30_ars) \/ Falsy(al30d_usd) \/ RLe(Val(al30d_usd), R(0))
          THEN [kind |-> "ok", val |-> None]
          ELSE [kind |-> "ok", val |-> Some(RDiv(Val(al30_ars), Val(al30d_usd)))]

-----------------------------------------------------------------------------
(* src/src/jobs/watchlist_job.py: one iteration of the loop over the       *)
(* watchlist, lines 325-453, up to the call of opportunity_flag            *)

Skip(reason, n) == [outcome |-> "skip", reason |-> reason, requests |-> n]
Raised(e, n) == [outcome |-> "exc", reason |-> e, requests |-> n]

IntOr0(x) == IF IsNone(x) THEN 0 ELSE Val(x)

\* lines 414-453: sizing, depth, thresholds
SizeAndThreshold(ticker, side, bid_d, ask_d, bid_qty, ask_qty, bid_qty_d, ask_qty_d, diff_buy, diff_sell, pack) ==
    LET n_opt == required_cedears_for_target_usd(TARGET_USD, bid_d, ask_d, side)
        n_cedears == IntOr0(n_opt)
        mins == min_qty_thresholds_for_target(n_cedears)
        diff_pct == IF side = "COMPRA" THEN diff_buy ELSE diff_sell
        edge_net == IF side = "COMPRA" THEN pack.edge_buy_net ELSE pack.edge_sell_net
    IN  IF IsNone(n_opt) \/ n_cedears = 0 THEN Skip("no_size", 2)
        ELSE IF bid_qty < mins[1] \/ ask_qty < mins[1] THEN Skip("book_ars", 2)
        ELSE IF bid_qty_d < mins[2] \/ ask_qty_d < mins[2] THEN Skip("book_d", 2)
        ELSE IF ~is_executable_for_size(n_cedears, bid_qty, ask_qty, bid_qty_d,
                                       ask_qty_d, side) THEN Skip("not_executable", 2)
        ELSE IF RLt(RAbs(diff_pct), WATCH_MIN_DIFF_PCT) THEN Skip("diff", 2)
        ELSE IF RLt(edge_net, WATCH_MIN_NET_USD_PER_CEDEAR) THEN Skip("edge", 2)
        ELSE \* line 449: bid_qty_i is not defined
             [outcome |-> "exc", reason |-> "NameError", requests |-> 2,
              ticker |-> ticker, side |-> side, edge_net |-> edge_net,
              diff_pct |-> diff_pct, n_cedears |-> n_cedears,
              bid_qty |-> bid_qty, ask_qty |-> ask_qty,
              bid_qty_d |-> bid_qty_d, ask_qty_d |-> ask_qty_d]

\* the stability test with >= instead of >
adr_unstable_ge(adr_5m) == RGe(RAbs(adr_5m), ADR_MAX_ABS_5M_PCT)

\* line 377: abs(adr_5m) > ADR_MAX_ABS_5M_PCT
adr_unstable(adr_5m) == RGt(RAbs(adr_5m), ADR_MAX_ABS_5M_PCT)

\* lines 372-412: the underlying, the implied rates, the direction
PriceAndDirection(ticker, ratio, p_ars, p_d, stock_usd, adr_5m, mep_ref) ==
    LET bid == Val(p_ars.bid)
        ask == Val(p_ars.ask)
        bid_d == Val(p_d.bid)
        ask_d == Val(p_d.ask)
        ccl_buy == ccl_implicit(Some(ask), stock_usd, Some(ratio))
        ccl_sell == ccl_implicit(Some(bid), stock_usd, Some(ratio))
        diff_buy == RMul(RDiv(RSub(Val(ccl_buy), mep_ref), mep_ref), R(100))
        diff_sell == RMul(RDiv(RSub(Val(ccl_sell), mep_ref), mep_ref), R(100))
        pack == edges_intuitive(bid, ask, Val(stock_usd), ratio, Some(mep_ref),
                                BROKER_FEE_PCT)
        usd_per_cedear_ars == RDiv(RDiv(RAdd(bid, ask), R(2)), mep_ref)
        usd_per_cedear_d == RDiv(RAdd(bid_d, ask_d), R(2))
        arb_side == IF RLt(usd_per_cedear_ars, usd_per_cedear_d)
                    THEN "barato en ARS / caro en D"
                    ELSE "caro en ARS / barato en D"
    IN  IF IsNone(stock_usd) \/ IsNone(adr_5m) THEN Skip("no_underlying", 2)
        ELSE IF adr_unstable(Val(adr_5m)) THEN Skip("unstable", 2)
        ELSE IF Falsy(ccl_buy) \/ Falsy(ccl_sell) THEN Skip("no_implied", 2)
        ELSE IF pack.kind # "ok" THEN Skip("no_pack", 2)
        ELSE IF usd_per_cedear_ars = usd_per_cedear_d THEN Skip("no_direction", 2)
        ELSE SizeAndThreshold(ticker, side_for_direction(arb_side), bid_d, ask_d,
                              IntOr0(p_ars.bid_qty), IntOr0(p_ars.ask_qty),
                              IntOr0(p_d.bid_qty), IntOr0(p_d.ask_qty),
                              diff_buy, diff_sell, pack)

\* lines 325-370: the watchlist row and the two quotes
Evaluate(w, q_ars, q_d, stock_usd, adr_5m, mep_ref) ==
    LET ticker == CellText(w.ticker)
        tipo == CellText(w.tipo)
        r == safe_float(w.ratio)
        ratio == IF Falsy(r) THEN R(1) ELSE Val(r)
        p_ars == parse_iol_quote(q_ars.q)
        p_d == parse_iol_quote(q_d.q)
    IN  IF ticker = "" \/ tipo # "CEDEAR" THEN Skip("not_cedear", 0)
        ELSE IF q_ars.kind = "exc" THEN Raised("TransportError", 1)
        ELSE IF q_ars.kind = "none" THEN Skip("no_quote_ars", 1)
        ELSE IF p_ars.plazo # WATCH_PLAZO_TARGET THEN Skip("plazo_ars", 1)
        ELSE IF IsNone(p_ars.bid) \/ IsNone(p_ars.ask) THEN Skip("no_book_ars", 1)
        ELSE IF ~IsNone(p_ars.montoOperado)
                /\ Val(p_ars.montoOperado) < MIN_MONTO_OPERADO_ARS THEN Skip("monto", 1)
        ELSE IF q_d.kind = "exc" THEN Raised("TransportError", 2)
        ELSE IF q_d.kind = "none" THEN Skip("no_quote_d", 2)
        ELSE IF p_d.plazo # WATCH_PLAZO_TARGET THEN Skip("plazo_d", 2)
        ELSE IF IsNone(p_d.bid) \/ IsNone(p_d.ask) THEN Skip("no_book_d", 2)
        ELSE PriceAndDirection(ticker, ratio, p_ars, p_d, stock_usd, adr_5m, mep_ref)

-----------------------------------------------------------------------------
(* The ticks *)

\* two runs of main(); the second one runs only where ticks may overlap
Ticks == {1, 2}

\* the state of the tick variables while a pure function is under check
TickIdle ==
    /\ guardEnabled = TRUE
    /\ sheets = [w \in {"hist", "state"} |-> [exists |-> FALSE, rows |-> <<>>]]
    /\ sheets0 = sheets
    /\ watchlist = <<>>
    /\ pc = [p \in Ticks |-> "idle"]
    /\ dt = [p \in Ticks |-> 0]
    /\ cur = [p \in Ticks |-> "hist"]
    /\ vals = [p \in Ticks |-> <<>>]
    /\ state = [p \in Ticks |-> <<>>]
    /\ mep = [p \in Ticks |-> None]
    /\ idx = [p \in Ticks |-> 0]
    /\ fetched = [p \in Ticks |-> FALSE]
    /\ wrote = [p \in Ticks |-> FALSE]
    /\ exc = [p \in Ticks |-> "none"]
    /\ passed = [p \in Ticks |-> <<>>]

-----------------------------------------------------------------------------
(* The inputs of a tick *)

\* rows of the watchlist tab
MaxWatch == 1

\* wall-clock times: before the first window, its last second, one second
\* after it
Times == {Hm(10, 59) + 59, Hm(13, 0), Hm(13, 0) + 1}

Absent == [exists |-> FALSE, rows |-> <<>>]
Sheet(rows) == [exists |-> TRUE, rows |-> rows]

OldHeader == <<Str("date,ticker,ratio,...,source")>>

HistSheets == {Absent, Sheet(<<>>), Sheet(<<WATCHLIST_HISTORY_HEADER>>), Sheet(<<OldHeader>>)}

StoredRow == <<Str("GGAL"), Str("COMPRA"), Iso(Hm(12, 50)), Num(R(9))>>

AlertSheets == {Absent, Sheet(<<>>), Sheet(<<STATE_HEADER>>), Sheet(<<STATE_HEADER, StoredRow>>)}

WatchRow(ticker, tipo, ratio, ticker_d) ==
    [ticker |-> ticker, tipo |-> tipo, ratio |-> ratio, ticker_d |-> ticker_d]

WatchRows ==
    { WatchRow(Str("GGAL"), Str("CEDEAR"), Num(R(1)), Str("")),
      WatchRow(Str("ggal"), Str("cedear"), Str(""), Str("GGALD")),
      WatchRow(Str("GGAL"), Str("ACCION"), Num(R(1)), Str("")),
      WatchRow(Str("GGAL"), Str("CEDEAR"), Num(R(0)), Str("")),
      WatchRow(Str("GGAL"), Str("CEDEAR"), Num(R(-2)), Str("")) }

Watchlists == SeqsUpTo(WatchRows, MaxWatch)

Book(bid, ask, bid_qty, ask_qty) ==
    <<Punta(Some(R(bid)), Some(R(ask)), Some(bid_qty), Some(ask_qty))>>

\* the two legs of the reference rate (AL30, AL30D)
LegArsQuotes ==
    { QuoteRaises, QuoteNone,
      QuoteOk(Json(Some(R(1000)), "T1", None, Book(1000, 1000, 10, 10))),
      QuoteOk(Json(Some(R(1000)), "T0", None, Book(1000, 1000, 10, 10))) }

LegUsdQuotes ==
    { QuoteNone,
      QuoteOk(Json(Some(R(100)), "T1", None, Book(100, 100, 10, 10))) }

\* the local listing: cheap, dear, within the threshold, thin book, other
\* term, no book, low traded amount
ArsQuotes ==
    { QuoteRaises, QuoteNone,
      QuoteOk(Json(Some(R(900)), "T1", None, Book(900, 900, 100, 100))),
      QuoteOk(Json(Some(R(1100)), "T1", Some(60000000), Book(1100, 1100, 100, 100))),
      QuoteOk(Json(Some(R(990)), "T1", None, Book(990, 990, 100, 100))),
      QuoteOk(Json(Some(R(900)), "T1", None, Book(900, 900, 10, 100))),
      QuoteOk(Json(Some(R(900)), "T0", None, Book(900, 900, 100, 100))),
      QuoteOk(Json(Some(R(900)), "T1", None, <<>>)),
      QuoteOk(Json(Some(R(900)), "T1", Some(1000000), Book(900, 900, 100, 100))),
      QuoteOk(Json(Some(R(900)), "T1", None, Book(900, 900, 50, 50))),
      QuoteOk(Json(Some(R(900)), "T1", None, Book(900, 900, 100, 49))) }

\* the foreign-currency listing
DQuotes ==
    { QuoteRaises, QuoteNone,
      QuoteOk(Json(Some(R(100)), "T1", None, Book(100, 100, 100, 100))),
      QuoteOk(Json(Some(R(100)), "T1", None, Book(100, 100, 10, 10))),
      QuoteOk(Json(Some(R(100)), "T0", None, Book(100, 100, 100, 100))),
      QuoteOk(Json(Some(R(100)), "T1", None, <<>>)),
      QuoteOk(Json(Some(R(100)), "T1", None, Book(100, 100, 20, 20))),
      QuoteOk(Json(Some(R(100)), "T1", None, Book(100, 100, 19, 100))),
      QuoteOk(Json(Some(R(10)), "T1", None, Book(10, 10, 100, 100))),
      QuoteOk(Json(Some(R(10)), "T1", None, Book(10, 10, 99, 100))) }

\* stock_usd_price, stock_usd_change_5m_pct
StockPrices == {None, Some(R(100)), Some(R(80)), Some(R(120))}
Changes5m ==
    {None, Some(Rat(20, 100)), Some(Rat(25, 100)), Some(Rat(30, 100)), Some(Rat(-30, 100))}

\* the reference rates the two legs can give
MepRates ==
    {r \in {get_mep_ref(a, u, WATCH_PLAZO_TARGET).val : a \in LegArsQuotes, u \in LegUsdQuotes} :
        ~Falsy(r)}

\* what one iteration of the loop can do with row w at reference rate m,
\* over every answer of the quote sources
EvalOutcomes ==
    [w \in WatchRows, m \in MepRates |->
        {Evaluate(w, q_ars, q_d, stock_usd, adr_5m, Val(m)) :
            q_ars \in ArsQuotes, q_d \in DQuotes, stock_usd \in StockPrices,
            adr_5m \in Changes5m}]

-----------------------------------------------------------------------------
(* src/src/jobs/watchlist_job.py: main() *)

Header(w) == IF w = "hist" THEN WATCHLIST_HISTORY_HEADER ELSE STATE_HEADER

Locals ==
    /\ dt = [p \in Ticks |-> 0]
    /\ cur = [p \in Ticks |-> "hist"]
    /\ vals = [p \in Ticks |-> <<>>]
    /\ state = [p \in Ticks |-> <<>>]
    /\ mep = [p \in Ticks |-> None]
    /\ idx = [p \in Ticks |-> 0]
    /\ fetched = [p \in Ticks |-> FALSE]
    /\ wrote = [p \in Ticks |-> FALSE]
    /\ exc = [p \in Ticks |-> "none"]
    /\ passed = [p \in Ticks |-> <<>>]

\* ticks that do not overlap: the scheduler starts the next run of main()
\* after the previous one has ended
Init ==
    /\ guardEnabled \in BOOLEAN
    /\ sheets \in [{"hist", "state"} -> HistSheets \cup AlertSheets]
    /\ sheets["hist"] \in HistSheets
    /\ sheets["state"] \in AlertSheets
    /\ sheets0 = sheets
    /\ watchlist \in Watchlists
    /\ pc = [p \in Ticks |-> IF p = 1 THEN "idle" ELSE "off"]
    /\ Locals
    /\ fin = <<>>
    /\ fout = <<>>

\* two ticks that may overlap; tick 1 is the one that starts first
InitOverlap ==
    /\ guardEnabled \in BOOLEAN
    /\ sheets \in [{"hist", "state"} -> HistSheets \cup AlertSheets]
    /\ sheets["hist"] \in {Absent, Sheet(<<WATCHLIST_HISTORY_HEADER>>)}
    /\ sheets["state"] \in AlertSheets
    /\ sheets0 = sheets
    /\ watchlist \in {q \in Watchlists : Len(q) <= 1}
    /\ pc = [p \in Ticks |-> "idle"]
    /\ Locals
    /\ fin = <<>>
    /\ fout = <<>>

\* lines 283-289: the clock and the window guard
StartTick(p) ==
    /\ pc[p] = "idle"
    /\ p = 2 => pc[1] # "idle"
    /\ \E t \in Times :
         /\ dt' = [dt EXCEPT ![p] = t]
         /\ pc' = [pc EXCEPT ![p] =
                     IF guardEnabled /\ ~in_allowed_window(t) THEN "gate_closed"
                     ELSE "ws_lookup"]
    /\ cur' = [cur EXCEPT ![p] = "hist"]
    /\ UNCHANGED <<guardEnabled, sheets, sheets0, watchlist, vals, state, mep, idx,
                   fetched, wrote, exc, passed, fin, fout>>

\* sheets.py:18-19: sheet.worksheet(title)
WsLookup(p) ==
    /\ pc[p] = "ws_lookup"
    /\ pc' = [pc EXCEPT ![p] = IF sheets[cur[p]].exists THEN "ws_values" ELSE "ws_add"]
    /\ UNCHANGED <<guardEnabled, sheets, sheets0, watchlist, dt, cur, vals, state, mep,
                   idx, fetched, wrote, exc, passed, fin, fout>>

\* sheets.py:20-21: sheet.add_worksheet(title); the API refuses a title that
\* exists
WsAdd(p) ==
    /\ pc[p] = "ws_add"
    /\ IF sheets[cur[p]].exists
       THEN /\ pc' = [pc EXCEPT ![p] = "crashed"]
            /\ exc' = [exc EXCEPT ![p] = "APIError"]
            /\ UNCHANGED <<sheets, wrote>>
       ELSE /\ sheets' = [sheets EXCEPT ![cur[p]] = Sheet(<<>>)]
            /\ wrote' = [wrote EXCEPT ![p] = TRUE]
            /\ pc' = [pc EXCEPT ![p] = "ws_values"]
            /\ UNCHANGED exc
    /\ UNCHANGED <<guardEnabled, sheets0, watchlist, dt, cur, vals, state, mep, idx,
                   fetched, passed, fin, fout>>

\* after ensure_worksheet: the next worksheet, or load_alert_state
AfterEnsure(p) == IF cur[p] = "hist" THEN "ws_lookup" ELSE "load"
NextSheet(p) == IF cur[p] = "hist" THEN "state" ELSE cur[p]

\* sheets.py:23-24: values = ws.get_all_values()
WsValues(p) ==
    /\ pc[p] = "ws_values"
    /\ LET values == sheets[cur[p]].rows
       IN  IF values = <<>> \/ values[1] # Header(cur[p])
           THEN /\ pc' = [pc EXCEPT ![p] = "ws_write"]
                /\ vals' = [vals EXCEPT ![p] = values]
                /\ cur' = cur
           ELSE /\ pc' = [pc EXCEPT ![p] = AfterEnsure(p)]
                /\ vals' = vals
                /\ cur' = [cur EXCEPT ![p] = NextSheet(p)]
    /\ UNCHANGED <<guardEnabled, sheets, sheets0, watchlist, dt, state, mep, idx,
                   fetched, wrote, exc, passed, fin, fout>>

\* sheets.py:25-29: ws.append_row(header) or ws.update("1:1", [header])
WsWrite(p) ==
    /\ pc[p] = "ws_write"
    /\ LET rows == sheets[cur[p]].rows
           new == IF vals[p] = <<>> THEN Append(rows, Header(cur[p]))
                  ELSE IF rows = <<>> THEN <<Header(cur[p])>>
                  ELSE [rows EXCEPT ![1] = Header(cur[p])]
       IN  sheets' = [sheets EXCEPT ![cur[p]] = Sheet(new)]
    /\ wrote' = [wrote EXCEPT ![p] = TRUE]
    /\ pc' = [pc EXCEPT ![p] = AfterEnsure(p)]
    /\ cur' = [cur EXCEPT ![p] = NextSheet(p)]
    /\ vals' = [vals EXCEPT ![p] = <<>>]
    /\ UNCHANGED <<guardEnabled, sheets0, watchlist, dt, state, mep, idx,
                   fetched, exc, passed, fin, fout>>

\* lines 308-313: load_alert_state, then the credentials
Load(p) ==
    /\ pc[p] = "load"
    /\ state' = [state EXCEPT ![p] = load_alert_state(sheets["state"].rows)]
    /\ \E creds \in BOOLEAN :
         IF creds
         THEN /\ pc' = [pc EXCEPT ![p] = "mep"]
              /\ exc' = exc
         ELSE /\ pc' = [pc EXCEPT ![p] = "crashed"]
              /\ exc' = [exc EXCEPT ![p] = "RuntimeError"]
    /\ UNCHANGED <<guardEnabled, sheets, sheets0, watchlist, dt, cur, vals, mep, idx,
                   fetched, wrote, passed, fin, fout>>

\* lines 315-319: get_mep_ref, then the watchlist
MepRef(p) ==
    /\ pc[p] = "mep"
    /\ \E q_ars \in LegArsQuotes, q_usd \in LegUsdQuotes :
         LET r == get_mep_ref(q_ars, q_usd, WATCH_PLAZO_TARGET)
         IN  IF r.kind = "exc"
             THEN /\ pc' = [pc EXCEPT ![p] = "crashed"]
                  /\ exc' = [exc EXCEPT ![p] = "TransportError"]
                  /\ UNCHANGED <<mep, idx>>
             ELSE IF Falsy(r.val)
             THEN /\ pc' = [pc EXCEPT ![p] = "no_mep"]
                  /\ UNCHANGED <<mep, idx, exc>>
             ELSE /\ pc' = [pc EXCEPT ![p] = "loop"]
                  /\ mep' = [mep EXCEPT ![p] = r.val]
                  /\ idx' = [idx EXCEPT ![p] = 1]
                  /\ exc' = exc
    /\ fetched' = [fetched EXCEPT ![p] = TRUE]
    /\ UNCHANGED <<guardEnabled, sheets, sheets0, watchlist, dt, cur, vals, state,
                   wrote, passed, fin, fout>>

\* lines 325-453: one row of the watchlist
EvalInstrument(p) ==
    /\ pc[p] = "loop"
    /\ idx[p] <= Len(watchlist)
    /\ \E e \in EvalOutcomes[watchlist[idx[p]], mep[p]] :
             /\ fetched' = [fetched EXCEPT ![p] = fetched[p] \/ e.requests > 0]
             /\ IF e.outcome = "skip"
                THEN /\ idx' = [idx EXCEPT ![p] = idx[p] + 1]
                     /\ UNCHANGED <<pc, exc, passed>>
                ELSE /\ pc' = [pc EXCEPT ![p] = "crashed"]
                     /\ exc' = [exc EXCEPT ![p] = e.reason]
                     /\ passed' = [passed EXCEPT ![p] =
                                     IF e.reason = "NameError" THEN <<e>> ELSE <<>>]
                     /\ idx' = idx
    /\ UNCHANGED <<guardEnabled, sheets, sheets0, watchlist, dt, cur, vals, state, mep,
                   wrote, fin, fout>>

\* lines 484-486: the loop is over and alerts_to_send is empty
EndTick(p) ==
    /\ pc[p] = "loop"
    /\ idx[p] > Len(watchlist)
    /\ pc' = [pc EXCEPT ![p] = "no_alerts"]
    /\ UNCHANGED <<guardEnabled, sheets, sheets0, watchlist, dt, cur, vals, state, mep,
                   idx, fetched, wrote, exc, passed, fin, fout>>

Ended(p) == pc[p] \in {"gate_closed", "no_mep", "no_alerts", "crashed"}

\* the external scheduler runs main() again: a new process, new locals
NewTick(p) ==
    /\ Ended(p)
    /\ pc' = [pc EXCEPT ![p] = "idle"]
    /\ dt' = [dt EXCEPT ![p] = 0]
    /\ cur' = [cur EXCEPT ![p] = "hist"]
    /\ vals' = [vals EXCEPT ![p] = <<>>]
    /\ state' = [state EXCEPT ![p] = <<>>]
    /\ mep' = [mep EXCEPT ![p] = None]
    /\ idx' = [idx EXCEPT ![p] = 0]
    /\ fetched' = [fetched EXCEPT ![p] = FALSE]
    /\ wrote' = [wrote EXCEPT ![p] = FALSE]
    /\ exc' = [exc EXCEPT ![p] = "none"]
    /\ passed' = [passed EXCEPT ![p] = <<>>]
    /\ UNCHANGED <<guardEnabled, sheets, sheets0, watchlist, fin, fout>>

Step(p) ==
    \/ StartTick(p)
    \/ WsLookup(p)
    \/ WsAdd(p)
    \/ WsValues(p)
    \/ WsWrite(p)
    \/ Load(p)
    \/ MepRef(p)
    \/ EvalInstrument(p)
    \/ EndTick(p)

Next == \E p \in Ticks : Step(p) \/ NewTick(p)

Spec == Init /\ [][Next]_vars

NextOverlap == \E p \in Ticks : Step(p)

SpecOverlap == InitOverlap /\ [][NextOverlap]_vars

-----------------------------------------------------------------------------
(* Properties of the tick *)

\* the stored state of ticker t: the last row of the sheet that names it
HasPrior(rows, t) ==
    \E i \in 2..Len(rows) : CellText(rows[i][1]) = t
Prior(rows, t) ==
    rows[CHOOSE i \in 2..Len(rows) :
            /\ CellText(rows[i][1]) = t
            /\ \A j \in (i + 1)..Len(rows) : CellText(rows[j][1]) # t]

\* t lies in none of the configured windows
OutsideAllWindows(t) ==
    \A i \in 1..Len(ALLOWED_WINDOWS) :
        \/ t < Hm(ALLOWED_WINDOWS[i][1], ALLOWED_WINDOWS[i][2])
        \/ t > Hm(ALLOWED_WINDOWS[i][3], ALLOWED_WINDOWS[i][4])

Running(p) == pc[p] \notin {"idle", "off"}

\* the tick did nothing: it stopped at the gate, requested no quote, wrote
\* nothing to the spreadsheet, loaded no alert state
NoOp(p) ==
    /\ pc[p] = "gate_closed"
    /\ ~fetched[p]
    /\ ~wrote[p]
    /\ state[p] = <<>>

\* C2 as stated (its particular case): a tick in which an instrument passes
\* every filter ends without an unhandled exception.
C2_AsStated == \A p \in Ticks : passed[p] # <<>> => exc[p] = "none"

\* C3 as stated: at the end of a tick, an instrument that passed every filter
\* and whose dedup decision is to emit has its AlertState overwritten with
\* the (direction, timestamp, net edge) of its opportunity.
C3_AsStated ==
    \A p \in Ticks :
        (Ended(p) /\ passed[p] # <<>>) =>
            LET o == passed[p][1]
                rows == sheets["state"].rows
            IN  should_send_alert(state[p], o.ticker, o.side, o.edge_net, dt[p]) =>
                    /\ HasPrior(rows, o.ticker)
                    /\ Prior(rows, o.ticker)
                         = <<Str(o.ticker), Str(o.side), Iso(dt[p]), Num(o.edge_net)>>

\* what ensure_worksheet leaves of worksheet w when nothing else runs
Ensured(w, sh) ==
    IF sh.rows = <<>> THEN Sheet(<<Header(w)>>)
    ELSE Sheet([sh.rows EXCEPT ![1] = Header(w)])

\* C6 as stated: when two overlapping ticks have ended, the AlertState store
\* is the one that the same two ticks leave when run one after the other.
C6_AsStated ==
    (\A p \in Ticks : Ended(p)) =>
        sheets["state"] =
            IF \E p \in Ticks : pc[p] # "gate_closed"
            THEN Ensured("state", sheets0["state"])
            ELSE sheets0["state"]

\* C7 as stated: a tick at a time outside every window is a no-op.
C7_AsStated ==
    \A p \in Ticks : (Running(p) /\ OutsideAllWindows(dt[p])) => NoOp(p)

\* C7 (amended): with the window guard enabled, a tick at a time outside
\* every configured window is a no-op: no quote requested, nothing written
\* to the spreadsheet, no alert state loaded or changed.
C7_Gate ==
    \A p \in Ticks :
        (guardEnabled /\ Running(p) /\ OutsideAllWindows(dt[p])) => NoOp(p)

\* a guarded tick one second after the window, stopped at the gate, with the
\* alert-state worksheet still missing
C7_Witness ==
    /\ guardEnabled
    /\ pc[1] = "gate_closed"
    /\ dt[1] = Hm(13, 0) + 1
    /\ ~sheets["state"].exists

\* C8 as stated: a tick whose reference rate is invalid ends with nothing
\* written to or created in the spreadsheet and no instrument evaluated.
C8_AsStated ==
    \A p \in Ticks : pc[p] = "no_mep" => (~wrote[p] /\ idx[p] = 0)

-----------------------------------------------------------------------------
(* get_mep_ref on the answers of the quote source *)

PuntasSet == {<<>>, Book(2, 4, 10, 10), Book(0, 0, 10, 10)}

MepLegs ==
    {QuoteRaises, QuoteNone} \cup
    {QuoteOk(Json(last, plazo, None, puntas)) :
        last \in {None, Some(R(3))}, plazo \in {"T0", "T1"}, puntas \in PuntasSet}

InitMep ==
    /\ TickIdle
    /\ fin \in [q_ars : MepLegs, q_usd : MepLegs]
    /\ fout = <<>>

Rate ==
    /\ fout = <<>>
    /\ fout' = <<get_mep_ref(fin.q_ars, fin.q_usd, WATCH_PLAZO_TARGET)>>
    /\ UNCHANGED <<fin, tickVars>>

NextMep == Rate

SpecMep == InitMep /\ [][NextMep]_vars

\* the leg has a price above zero: the mid of its best bid and ask, or its
\* last price when the book is incomplete
HasPositivePrice(q) ==
    IF Len(q.puntas) > 0 /\ ~IsNone(q.puntas[1].precioCompra)
                         /\ ~IsNone(q.puntas[1].precioVenta)
    THEN Val(q.puntas[1].precioCompra).n + Val(q.puntas[1].precioVenta).n > 0
    ELSE ~IsNone(q.ultimoPrecio) /\ Val(q.ultimoPrecio).n > 0

\* C9 as stated: get_mep_ref gives a rate only when both legs are available
\* with the same settlement term, and gives None when a leg is unavailable,
\* has no positive price, or the terms differ.
C9_AsStated ==
    fout # <<>> =>
      LET r == fout[1]
          a == fin.q_ars
          u == fin.q_usd
          both == a.kind = "ok" /\ u.kind = "ok"
      IN  /\ (r.kind = "ok" /\ ~IsNone(r.val)) => (both /\ a.q.plazo = u.q.plazo)
          /\ ( \/ ~both
               \/ ~HasPositivePrice(a.q)
               \/ ~HasPositivePrice(u.q)
               \/ a.q.plazo # u.q.plazo ) => r = [kind |-> "ok", val |-> None]

-----------------------------------------------------------------------------
(* should_send_alert on the states that load_alert_state builds *)

\* rows below the header of the alert-state worksheet
MaxStateRows == 1

\* the stored alert was sent at T0; candidate "now" values around the cooldown
T0 == Hm(11, 0)

StateRowCells ==
    { <<tk, sd, ts, ed>> :
        tk \in {Str("GGAL"), Str("ggal")},
        sd \in {Str("COMPRA"), Str("VENTA"), Str("")},
        ts \in {Iso(T0), Str("")},
        ed \in {Num(R(1)), Num(R(2)), Str("")} }

StateSheets == {<<STATE_HEADER>> \o q : q \in SeqsUpTo(StateRowCells, MaxStateRows)}

DedupInputs ==
    [rows : StateSheets,
     ticker : {"GGAL"},
     side : {"COMPRA", "VENTA"},
     edge_net : {Rat(10, 100), R(1), Rat(102, 100), Rat(105, 100), Rat(106, 100)},
     now_dt : {T0 + 60, T0 + ALERT_COOLDOWN_MIN * 60 - 1, T0 + ALERT_COOLDOWN_MIN * 60,
               T0 + ALERT_COOLDOWN_MIN * 60 + 1}]

InitDedup ==
    /\ TickIdle
    /\ fin \in DedupInputs
    /\ fout = <<>>

Decide ==
    /\ fout = <<>>
    /\ fout' = <<should_send_alert(load_alert_state(fin.rows), fin.ticker, fin.side,
                                   fin.edge_net, fin.now_dt)>>
    /\ UNCHANGED <<fin, tickVars>>

NextDedup == Decide

SpecDedup == InitDedup /\ [][NextDedup]_vars

\* C1 as stated: an alert is emitted if and only if (a) there is no prior
\* state, or (b) the new direction differs from the stored one, or (c) the
\* time elapsed since the stored timestamp exceeds the cooldown, or (d) the
\* new net edge exceeds the stored one by at least the margin.
C1_AsStated ==
    fout # <<>> =>
      LET t == fin.ticker
          p == Prior(fin.rows, t)
      IN  fout[1] <=>
            \/ ~HasPrior(fin.rows, t)
            \/ p[2] # Str(fin.side)
            \/ p[3].k = "iso" /\ fin.now_dt - p[3].t > ALERT_COOLDOWN_MIN * 60
            \/ p[4].k = "num" /\ RGe(RSub(fin.edge_net, p[4].r), ALERT_EDGE_IMPROVE_USD)

\* C1 (amended): an alert is emitted if and only if there is no prior state,
\* or the stored direction is not empty and differs from the new one, or the
\* stored timestamp is missing, or at least the cooldown has elapsed since it
\* (elapsed >= cooldown), or the stored net edge is missing, or the new net
\* edge exceeds the stored one by at least the margin.
C1_Dedup ==
    fout # <<>> =>
      LET t == fin.ticker
          p == Prior(fin.rows, t)
      IN  fout[1] <=>
            \/ ~HasPrior(fin.rows, t)
            \/ p[2] \notin {Str(""), Str(fin.side)}
            \/ p[3].k # "iso"
            \/ fin.now_dt - p[3].t >= ALERT_COOLDOWN_MIN * 60
            \/ p[4].k # "num"
            \/ RGe(RSub(fin.edge_net, p[4].r), ALERT_EDGE_IMPROVE_USD)

\* the cooldown boundary: same direction, exactly the cooldown elapsed, no
\* improvement, and the alert is emitted
C1_Witness ==
    /\ fout = <<TRUE>>
    /\ HasPrior(fin.rows, fin.ticker)
    /\ LET p == Prior(fin.rows, fin.ticker)
       IN  /\ p[2] = Str(fin.side)
           /\ p[3] = Iso(T0)
           /\ fin.now_dt = T0 + ALERT_COOLDOWN_MIN * 60
           /\ p[4] = Num(R(1))
           /\ fin.edge_net = R(1)

-----------------------------------------------------------------------------
(* edges_intuitive on bounded prices, ratios, rates and fees *)

RMax(a, b) == IF RGe(a, b) THEN a ELSE b

EdgeInputs ==
    [bid_ars : {R(900), R(1000)},
     ask_ars : {R(900), R(1100)},
     stock_usd : {R(100), R(80)},
     ratio : {R(1), R(2), R(0)},
     ccl_mkt : {None, Some(R(10)), Some(R(0))},
     fee_pct_per_tx : {BROKER_FEE_PCT, R(0)}]

InitEdge ==
    /\ TickIdle
    /\ fin \in EdgeInputs
    /\ fout = <<>>

Edges ==
    /\ fout = <<>>
    /\ fout' = <<edges_intuitive(fin.bid_ars, fin.ask_ars, fin.stock_usd, fin.ratio,
                                 fin.ccl_mkt, fin.fee_pct_per_tx)>>
    /\ UNCHANGED <<fin, tickVars>>

NextEdge == Edges

SpecEdge == InitEdge /\ [][NextEdge]_vars

\* C11 as stated: each per-direction net edge that edges_intuitive returns
\* equals max(gross edge - round-trip fee, 0), and so is never negative.
C11_AsStated ==
    (fout # <<>> /\ fout[1].kind = "ok") =>
        LET e == fout[1]
        IN  /\ e.edge_buy_net = RMax(RSub(e.edge_buy_gross, e.fee_buy_usd_rt), R(0))
            /\ e.edge_sell_net = RMax(RSub(e.edge_sell_gross, e.fee_sell_usd_rt), R(0))

-----------------------------------------------------------------------------
(* Properties of the loop over the watchlist *)

\* the ratio cell of a watchlist row holds a number above zero
ValidRatio(w) ==
    LET r == safe_float(w.ratio)
    IN  ~IsNone(r) /\ RGt(Val(r), R(0))

\* C12 as stated: an instrument whose conversion ratio is missing, zero or
\* negative is skipped; it never gets through the filters as an opportunity.
C12_AsStated ==
    \A p \in Ticks : passed[p] # <<>> => ValidRatio(watchlist[idx[p]])

\* C13 as stated: a transport failure of the quote source while the tick
\* fetches the quote of an instrument of the watchlist does not escape as an
\* exception: the instrument is skipped and the tick goes on.
C13_AsStated ==
    \A p \in Ticks : ~(idx[p] >= 1 /\ exc[p] = "TransportError")

\* the rows of the watchlist that the loop evaluates: CEDEARs with a ticker
IsEvaluated(w) == CellText(w.ticker) # "" /\ CellText(w.tipo) = "CEDEAR"

EvaluatedCount == Cardinality({i \in 1..Len(watchlist) : IsEvaluated(watchlist[i])})

\* the audit rows of the history worksheet: the rows below its header
AuditRows ==
    IF sheets["hist"].rows = <<>> THEN 0 ELSE Len(sheets["hist"].rows) - 1

\* C14 as stated: a tick that passed the gate with a valid reference rate and
\* went through the whole watchlist has appended one audit row for every
\* instrument it evaluated, alert or no alert.
C14_AsStated ==
    \A p \in Ticks :
        (pc[p] = "no_alerts" /\ EvaluatedCount > 0) =>
            AuditRows >= Len(Ensured("hist", sheets0["hist"]).rows) - 1 + EvaluatedCount

-----------------------------------------------------------------------------
(* Further properties of should_send_alert *)

\* C16: when the stored state of the instrument has a direction and the new
\* opportunity has the other direction, the dedup decision is to emit,
\* whatever the elapsed time, the stored edge and the new net edge.
C16_FlipEmits ==
    (fout # <<>> /\ HasPrior(fin.rows, fin.ticker)) =>
        LET p == Prior(fin.rows, fin.ticker)
        IN  (p[2] \in {Str("COMPRA"), Str("VENTA")} /\ p[2] # Str(fin.side))
                => fout[1] = TRUE

\* stored (COMPRA, 2.00) one minute ago, new (VENTA, 0.10): emitted
C16_Witness ==
    /\ fout = <<TRUE>>
    /\ HasPrior(fin.rows, fin.ticker)
    /\ LET p == Prior(fin.rows, fin.ticker)
       IN  /\ p[2] = Str("COMPRA")
           /\ p[3] = Iso(T0)
           /\ p[4] = Num(R(2))
    /\ fin.side = "VENTA"
    /\ fin.edge_net = Rat(10, 100)
    /\ fin.now_dt = T0 + 60

-----------------------------------------------------------------------------
(* required_cedears_for_target_usd and is_executable_for_size on bounded   *)
(* prices and book quantities                                              *)

SizeQtys == {19, 20, 21}

SizeInputs ==
    [bid_d : {R(25), R(24), Rat(51, 2)},
     ask_d : {R(25), R(24), Rat(51, 2)},
     side : {"COMPRA", "VENTA"},
     bid_qty_ars : SizeQtys, ask_qty_ars : SizeQtys,
     bid_qty_d : SizeQtys, ask_qty_d : SizeQtys]

InitSize ==
    /\ TickIdle
    /\ fin \in SizeInputs
    /\ fout = <<>>

\* watchlist_job.py:415-427
Size ==
    /\ fout = <<>>
    /\ LET n == required_cedears_for_target_usd(TARGET_USD, fin.bid_d, fin.ask_d, fin.side)
       IN  fout' = <<[n |-> n,
                      ok |-> is_executable_for_size(IntOr0(n), fin.bid_qty_ars,
                                 fin.ask_qty_ars, fin.bid_qty_d, fin.ask_qty_d, fin.side)]>>
    /\ UNCHANGED <<fin, tickVars>>

NextSize == Size

SpecSize == InitSize /\ [][NextSize]_vars

-----------------------------------------------------------------------------
(* One iteration of the loop of main() on every answer of the quote        *)
(* sources                                                                 *)

EvalInputs ==
    [w : WatchRows, q_ars : ArsQuotes, q_d : DQuotes, stock_usd : StockPrices,
     adr_5m : Changes5m, mep_ref : MepRates]

InitEval ==
    /\ TickIdle
    /\ fin \in EvalInputs
    /\ fout = <<>>

EvalRow ==
    /\ fout = <<>>
    /\ fout' = <<Evaluate(fin.w, fin.q_ars, fin.q_d, fin.stock_usd, fin.adr_5m,
                          Val(fin.mep_ref))>>
    /\ UNCHANGED <<fin, tickVars>>

NextEval == EvalRow

SpecEval == InitEval /\ [][NextEval]_vars

\* the instrument got through every filter of the loop (it is at line 446)
PassedFilters == fout # <<>> /\ fout[1].outcome = "exc" /\ fout[1].reason = "NameError"

\* C18: an instrument gets through the filters, and so can be alerted, only
\* if the best-bid and best-ask quantities of both legs each reach the
\* minimum: max(50, 2 * lots_needed) on the local leg, max(20, 2 *
\* lots_needed) on the foreign-currency listing.
C18_DepthMinimum ==
    PassedFilters =>
        LET a == fin.q_ars.q.puntas[1]
            d == fin.q_d.q.puntas[1]
            n == fout[1].n_cedears
        IN  /\ Val(a.cantidadCompra) >= Max(50, 2 * n)
            /\ Val(a.cantidadVenta) >= Max(50, 2 * n)
            /\ Val(d.cantidadCompra) >= Max(20, 2 * n)
            /\ Val(d.cantidadVenta) >= Max(20, 2 * n)

\* 50 lots needed, 100 on each of the four quantities: through the filters
C18_Witness ==
    /\ PassedFilters
    /\ fout[1].n_cedears = 50
    /\ Val(fin.q_ars.q.puntas[1].cantidadCompra) = 100
    /\ Val(fin.q_d.q.puntas[1].cantidadCompra) = 100

\* the loop got as far as the stability test of line 377
AtStability ==
    /\ fout # <<>>
    /\ fout[1].requests = 2
    /\ fout[1].reason \notin {"TransportError", "no_quote_d", "plazo_d", "no_book_d"}
    /\ ~IsNone(fin.stock_usd)
    /\ ~IsNone(fin.adr_5m)

\* C19: the stability filter excludes the instrument exactly when the
\* absolute 5-minute change of the underlying is above the threshold: a
\* change above it never gets through the filters, and the filter skips the
\* instrument if and only if the change is above the threshold.
C19_Stability ==
    AtStability =>
        LET above == RGt(RAbs(Val(fin.adr_5m)), Rat(25, 100))
        IN  /\ above => ~PassedFilters
            /\ (fout[1].reason = "unstable") <=> above

\* a change of 0.30% is excluded
C19_Witness ==
    /\ AtStability
    /\ fin.adr_5m = Some(Rat(30, 100))
    /\ fout[1].reason = "unstable"

-----------------------------------------------------------------------------
(* ccl_implicit on missing, zero, negative and positive arguments *)

CclArgs == {None, Some(R(0)), Some(R(-100)), Some(R(2)), Some(R(100)), Some(Rat(1, 2))}

CclInputs == [cedear_ars : CclArgs, stock_usd : CclArgs, ratio : CclArgs]

InitCcl ==
    /\ TickIdle
    /\ fin \in CclInputs
    /\ fout = <<>>

Implied ==
    /\ fout = <<>>
    /\ fout' = <<ccl_implicit(fin.cedear_ars, fin.stock_usd, fin.ratio)>>
    /\ UNCHANGED <<fin, tickVars>>

NextCcl == Implied

SpecCcl == InitCcl /\ [][NextCcl]_vars

\* the argument is a number above zero
Positive(x) == ~IsNone(x) /\ RGt(Val(x), R(0))

\* C20 as stated: ccl_implicit returns local_price * ratio / foreign_price
\* when the three arguments are above zero, and the invalid result (None)
\* when any of them is missing, zero or negative.
C20_AsStated ==
    fout # <<>> =>
        IF Positive(fin.cedear_ars) /\ Positive(fin.stock_usd) /\ Positive(fin.ratio)
        THEN fout[1] = Some(RDiv(RMul(Val(fin.cedear_ars), Val(fin.ratio)),
                                 Val(fin.stock_usd)))
        ELSE fout[1] = None

-----------------------------------------------------------------------------
(* opportunity_flag on edges, deviations and book quantities around the    *)
(* thresholds                                                              *)

FlagQtys == {3, 4, 19, 20}

FlagInputs ==
    [edge_net : {Rat(50, 100), Rat(79, 100), Rat(80, 100), Rat(149, 100), Rat(150, 100), R(2)},
     diff_pct : {R(-5), R(-4), R(2), R(3), Rat(399, 100), R(4)},
     n_cedears : {1, 5},
     bid_qty_ars : FlagQtys, ask_qty_ars : FlagQtys,
     bid_qty_d : FlagQtys, ask_qty_d : FlagQtys]

InitFlag ==
    /\ TickIdle
    /\ fin \in FlagInputs
    /\ fout = <<>>

Classify ==
    /\ fout = <<>>
    /\ fout' = <<opportunity_flag(fin.edge_net, fin.diff_pct, fin.n_cedears,
                                  fin.bid_qty_ars, fin.ask_qty_ars, fin.bid_qty_d,
                                  fin.ask_qty_d)>>
    /\ UNCHANGED <<fin, tickVars>>

NextFlag == Classify

SpecFlag == InitFlag /\ [][NextFlag]_vars

\* C21: opportunity_flag always returns one of three tiers; ULTRA exactly
\* when the net edge is at least 1.50, the absolute deviation at least 4%
\* and each of the four book quantities at least 4 times the lot; otherwise
\* STRONG exactly when the net edge is at least 0.80 or the absolute
\* deviation at least 3%; otherwise MEDIUM.
C21_Tiers ==
    fout # <<>> =>
        LET n == fin.n_cedears
            top == /\ RGe(fin.edge_net, Rat(150, 100))
                   /\ RGe(RAbs(fin.diff_pct), R(4))
                   /\ \A q \in {fin.bid_qty_ars, fin.ask_qty_ars, fin.bid_qty_d,
                                fin.ask_qty_d} : q >= 4 * n
            mid == RGe(fin.edge_net, Rat(80, 100)) \/ RGe(RAbs(fin.diff_pct), R(3))
        IN  /\ fout[1] \in {"ULTRA", "STRONG", "MEDIUM"}
            /\ fout[1] = "ULTRA" <=> top
            /\ fout[1] = "STRONG" <=> (~top /\ mid)
            /\ fout[1] = "MEDIUM" <=> (~top /\ ~mid)

\* net edge 1.50, deviation -4%, 5 lots, 20 on each quantity: ULTRA
C21_Witness ==
    /\ fout = <<"ULTRA">>
    /\ fin.edge_net = Rat(150, 100)
    /\ fin.diff_pct = R(-4)
    /\ fin.n_cedears = 5
    /\ fin.bid_qty_ars = 20 /\ fin.ask_qty_ars = 20
    /\ fin.bid_qty_d = 20 /\ fin.ask_qty_d = 20

-----------------------------------------------------------------------------
(* Direction and deviation of the opportunities that get through the       *)
(* filters                                                                 *)

\* the ratio main() works with: `safe_float(w.get("ratio")) or 1.0`
RatioOf(w) == IF Falsy(safe_float(w.ratio)) THEN R(1) ELSE Val(safe_float(w.ratio))

\* the implied rate at local price px: px * ratio / stock_usd
ImpliedAt(px) == RDiv(RMul(Val(px), RatioOf(fin.w)), Val(fin.stock_usd))

\* C24: an opportunity that got through the filters with side COMPRA has
\* the implied rate at the local ask below the reference rate (diff_buy < 0),
\* and with side VENTA it has the implied rate at the local bid above the
\* reference rate (diff_sell > 0); the deviation it carries has that sign.
C24_SignMatchesSide ==
    PassedFilters =>
        LET a == fin.q_ars.q.puntas[1]
            o == fout[1]
        IN  /\ o.side \in {"COMPRA", "VENTA"}
            /\ o.side = "COMPRA" =>
                 /\ RLt(ImpliedAt(a.precioVenta), Val(fin.mep_ref))
                 /\ RLt(o.diff_pct, R(0))
            /\ o.side = "VENTA" =>
                 /\ RGt(ImpliedAt(a.precioCompra), Val(fin.mep_ref))
                 /\ RGt(o.diff_pct, R(0))

\* local listing dear against the foreign listing and against the
\* underlying: VENTA, with a deviation of +10%
C24_Witness ==
    /\ PassedFilters
    /\ fout[1].side = "VENTA"
    /\ fout[1].diff_pct = R(10)
    /\ fin.stock_usd = Some(R(100))

-----------------------------------------------------------------------------
(* min_qty_thresholds_for_target and is_executable_for_size on the same    *)
(* lot and book                                                            *)

ExecLots == {1, 10, 20, 25, 26}

ExecQtys == {19, 20, 39, 40, 49, 50, 51, 52}

ExecInputs ==
    [n : ExecLots, side : {"COMPRA", "VENTA"},
     bid_qty_ars : ExecQtys, ask_qty_ars : ExecQtys,
     bid_qty_d : ExecQtys, ask_qty_d : ExecQtys]

InitExec ==
    /\ TickIdle
    /\ fin \in ExecInputs
    /\ fout = <<>>

\* watchlist_job.py:419-427
DepthThenSize ==
    /\ fout = <<>>
    /\ LET mins == min_qty_thresholds_for_target(fin.n)
       IN  fout' = <<[depth |-> ~(fin.bid_qty_ars < mins[1] \/ fin.ask_qty_ars < mins[1])
                                /\ ~(fin.bid_qty_d < mins[2] \/ fin.ask_qty_d < mins[2]),
                      ok |-> is_executable_for_size(fin.n, fin.bid_qty_ars, fin.ask_qty_ars,
                                                    fin.bid_qty_d, fin.ask_qty_d, fin.side)]>>
    /\ UNCHANGED <<fin, tickVars>>

NextExec == DepthThenSize

SpecExec == InitExec /\ [][NextExec]_vars

\* C25: for a lot n >= 1 and either direction, a book whose four quantities
\* pass the depth-minimum checks is accepted by is_executable_for_size.
C25_DepthImpliesExecutable ==
    (fout # <<>> /\ fout[1].depth) => fout[1].ok

\* 26 lots, 52 on each of the four quantities: past the depth minimum and
\* executable
C25_Witness ==
    /\ fout # <<>>
    /\ fin.n = 26
    /\ fin.bid_qty_ars = 52 /\ fin.ask_qty_ars = 52
    /\ fin.bid_qty_d = 52 /\ fin.ask_qty_d = 52
    /\ fout[1].depth
    /\ fout[1].ok

====
